---- MODULE Spec2Model ----
(***************************************************************************)
(* Model of helsinki_vrp_portfolio.py: a script that loads a CVRPTW       *)
(* instance, builds an OR-Tools routing model (Capacity and Time          *)
(* dimensions, time windows), solves it once, and extracts the routes of  *)
(* the returned assignment into three dictionaries.                       *)
(*                                                                         *)
(* The routing library is called, not implemented, by the script.  Its    *)
(* call SolveWithParameters is modelled by its contract: it returns None  *)
(* or any assignment that satisfies every constraint the script posted.   *)
(***************************************************************************)
EXTENDS Integers, Sequences, FiniteSets, TLC

VARIABLES
    demands,        \* line 18: node -> demand
    time_windows,   \* line 19: node -> <<tw_start, tw_end>>
    lats,           \* line 16: node -> position (see TravelMinutes)
    time_matrix,    \* lines 41-49
    cumul_range,    \* range of the Time cumul variable of every index
    solution,       \* line 108
    vehicle_routes, \* line 117
    vehicle_times,  \* line 118
    vehicle_loads,  \* line 119
    v,              \* line 121: loop variable of the extraction
    console,        \* what print() wrote
    pc              \* position of the script

vars == <<demands, time_windows, lats, time_matrix, cumul_range, solution,
          vehicle_routes, vehicle_times, vehicle_loads, v, console, pc>>

-----------------------------------------------------------------------------
(* Program constants *)

depot_index == 0

num_vehicles == 3

vehicle_capacities == <<15, 15, 15>>

max_route_duration == 240

Time_slack == 30

\* SolveWithParameters found no assignment: an assignment of no variable
None == [next |-> <<>>, time |-> <<>>]

-----------------------------------------------------------------------------
(* Bounds of the model *)

\* helsinki_vrp.csv has at most MaxNodes rows
MaxNodes == 3

\* the solver picks a waiting time among 0, 30, ..., 30 * MaxWaitSteps
MaxWaitSteps == 2

\* the solver picks a route start time among 0, 120, ..., 120 * MaxStartSteps
MaxStartSteps == 1

WaitChoices == {i * Time_slack : i \in 0..MaxWaitSteps}

StartChoices == {i * (max_route_duration \div 2) : i \in 0..MaxStartSteps}

\* candidate rows of the csv file: the depot row and the customer rows
Row(d, s, e, p) == [demand |-> d, tw_start |-> s, tw_end |-> e, lat |-> p]

DepotRows ==
    { Row(0, 0, 240, 0),      \* well-formed depot
      Row(1, 0, 240, 0),      \* depot demand not 0
      Row(0, 120, 240, 0) }   \* depot window opens late

CustomerRows ==
    { Row(8, 0, 240, 120),    \* plain customer
      Row(7, 90, 120, 90),    \* window met from the depot by waiting
      Row(16, 0, 240, 120),   \* demand above every capacity
      Row(-1, 0, 240, 120),   \* negative demand
      Row(1, 120, 90, 60),    \* earliest > latest
      Row(1, 150, 240, 60),   \* window far after the arrival from the depot
      Row(1, 0, 240, 150) }   \* round trip longer than max_route_duration

-----------------------------------------------------------------------------
(* Helpers *)

Max(a, b) == IF a >= b THEN a ELSE b

Min(a, b) == IF a <= b THEN a ELSE b

Abs(a) == IF a >= 0 THEN a ELSE -a

num_nodes == Cardinality(DOMAIN demands)

Nodes == 0..(num_nodes - 1)

Vehicles == 0..(num_vehicles - 1)

(* RoutingIndexManager(num_nodes, num_vehicles, depot_index): indices     *)
(* 0..num_nodes-1 are the nodes (the depot's index is the start of        *)
(* vehicle 0), then one start per further vehicle, then one end per       *)
(* vehicle.                                                                *)
NodeToIndex(n) == n

Start(w) == IF w = 0 THEN NodeToIndex(depot_index) ELSE num_nodes + w - 1

End(w) == num_nodes + num_vehicles - 1 + w

Indices == 0..(num_nodes + 2 * num_vehicles - 2)

IsEnd(index) == index >= num_nodes + num_vehicles - 1

IndexToNode(index) == IF index < num_nodes THEN index ELSE depot_index

-----------------------------------------------------------------------------
(* Section 2: travel time matrix *)

(* The nodes of the model lie on one meridian, lats[n] being the distance *)
(* from the depot's parallel in half kilometres; haversine is then half   *)
(* the difference of the positions, and int(round(d * 2)) the difference. *)
TravelMinutes(i, j) == Abs(lats[i] - lats[j])

TimeMatrix == [i \in Nodes |-> [j \in Nodes |->
                 IF i = j THEN 0 ELSE TravelMinutes(i, j)]]

-----------------------------------------------------------------------------
(* Section 3: the routing model *)

time_callback(from_index, to_index) ==
    time_matrix[IndexToNode(from_index)][IndexToNode(to_index)]

demand_callback(from_index) == demands[IndexToNode(from_index)]

\* the Time dimension: every cumul variable ranges over 0..max_route_duration
InitialRange == [lo |-> 0, hi |-> max_route_duration]

\* faulty variant of SetRange: the new bounds replace the old ones only outwards
SetRange_Widens(r, lo, hi) == [lo |-> Min(r.lo, lo), hi |-> Max(r.hi, hi)]

\* IntVar.SetRange narrows the variable's range, it never widens it
SetRange(r, lo, hi) == [lo |-> Max(r.lo, lo), hi |-> Min(r.hi, hi)]

IsEmptyRange(r) == r.lo > r.hi

InRange(t, r) == r.lo <= t /\ t <= r.hi

\* faulty variant of WindowRanges: the loop misses its last node
RECURSIVE WindowRanges_SkipsLast(_, _, _)
WindowRanges_SkipsLast(ranges, n, stop) ==
    IF n >= stop - 1 THEN ranges
    ELSE WindowRanges_SkipsLast(
           [ranges EXCEPT ![NodeToIndex(n)] =
               SetRange(@, time_windows[n][1], time_windows[n][2])],
           n + 1, stop)

\* lines 93-95 for the nodes n, n+1, ..., stop-1
RECURSIVE WindowRanges(_, _, _)
WindowRanges(ranges, n, stop) ==
    IF n >= stop THEN ranges
    ELSE WindowRanges(
           [ranges EXCEPT ![NodeToIndex(n)] =
               SetRange(@, time_windows[n][1], time_windows[n][2])],
           n + 1, stop)

\* lines 98-100
DepotStartRanges(ranges) ==
    [i \in Indices |->
        IF \E w \in Vehicles : i = Start(w)
        THEN SetRange(ranges[i], 0, max_route_duration)
        ELSE ranges[i]]

\* the nodes whose SetRange at line 95 leaves no value
FailingNodes ==
    {n \in Nodes :
        IsEmptyRange(SetRange(InitialRange, time_windows[n][1], time_windows[n][2]))}

FirstFailingNode == CHOOSE n \in FailingNodes : \A m \in FailingNodes : n <= m

-----------------------------------------------------------------------------
(* The assignments SolveWithParameters may return *)

RECURSIVE Perms(_)
Perms(S) ==
    IF S = {} THEN {<<>>}
    ELSE UNION {{<<x>> \o p : p \in Perms(S \ {x})} : x \in S}

\* the nodes a route may visit between its start and its end
Customers == Nodes \ {depot_index}

(* RoutingModel(manager) without disjunctions: every node index is on     *)
(* exactly one vehicle's path.  A plan gives vehicles w..num_vehicles-1   *)
(* their ordered visits, together covering S.                              *)
RECURSIVE RoutePlans(_, _)
RoutePlans(S, w) ==
    IF w = num_vehicles - 1 THEN {<<p>> : p \in Perms(S)}
    ELSE UNION {UNION {{<<p>> \o rest : rest \in RoutePlans(S \ T, w + 1)}
                       : p \in Perms(T)} : T \in SUBSET S}

Path(plan, w) == <<Start(w)>> \o [k \in 1..Len(plan[w + 1]) |-> NodeToIndex(plan[w + 1][k])]
                    \o <<End(w)>>

(* AddDimensionWithVehicleCapacity(demand, 0, capacities, True,           *)
(* "Capacity"): the cumul is 0 at the start, grows by the demand of the   *)
(* index left plus a slack of at most 0, and stays in 0..capacity.         *)
CapacityCumul(path) ==
    LET cum[k \in 1..Len(path)] ==
            IF k = 1 THEN 0 ELSE cum[k - 1] + demand_callback(path[k - 1])
    IN  cum

\* faulty variant of CapacityOK: the cumul at the route's end is not bounded
CapacityOK_NotAtEnd(path, w) ==
    \A k \in 1..(Len(path) - 1) :
        /\ 0 <= CapacityCumul(path)[k]
        /\ CapacityCumul(path)[k] <= vehicle_capacities[w + 1]

\* faulty variant of CapacityOK: the vehicle's capacity is not enforced
CapacityOK_NoCapacity(path, w) ==
    \A k \in 1..Len(path) : 0 <= CapacityCumul(path)[k]

CapacityOK(path, w) ==
    \A k \in 1..Len(path) :
        /\ 0 <= CapacityCumul(path)[k]
        /\ CapacityCumul(path)[k] <= vehicle_capacities[w + 1]

(* AddDimension(transit, 30, max_route_duration, False, "Time"): the      *)
(* start cumul is free, each next cumul is the previous one plus the      *)
(* transit plus a slack in 0..30, and every cumul is in its range.         *)
\* faulty variant of SlackChoices: twice the waiting allowed
SlackChoices_Double == {s \in WaitChoices : 0 <= s /\ s <= 2 * Time_slack}

SlackChoices == {s \in WaitChoices : 0 <= s /\ s <= Time_slack}

RECURSIVE TimeExt(_, _)
TimeExt(path, ts) ==
    IF Len(ts) = Len(path) THEN {ts}
    ELSE LET k == Len(ts)
             nxt == {ts[k] + time_callback(path[k], path[k + 1]) + s : s \in SlackChoices}
         IN  UNION {TimeExt(path, Append(ts, t))
                     : t \in {u \in nxt : InRange(u, cumul_range[path[k + 1]])}}

TimeSeqs(path) ==
    UNION {TimeExt(path, <<t>>) : t \in {u \in StartChoices : InRange(u, cumul_range[path[1]])}}

RECURSIVE TimePlans(_, _)
TimePlans(plan, w) ==
    IF w = num_vehicles THEN {<<>>}
    ELSE {<<ts>> \o rest : ts \in TimeSeqs(Path(plan, w)), rest \in TimePlans(plan, w + 1)}

\* the assignment: the value of NextVar and of the Time CumulVar of every index
Assignment(plan, tplan) ==
    LET VehicleOf(i) == CHOOSE w \in Vehicles :
                            \E k \in 1..Len(Path(plan, w)) : Path(plan, w)[k] = i
        PosOf(i) == CHOOSE k \in 1..Len(Path(plan, VehicleOf(i))) :
                            Path(plan, VehicleOf(i))[k] = i
    IN  [next |-> [i \in {j \in Indices : ~IsEnd(j)} |->
                      Path(plan, VehicleOf(i))[PosOf(i) + 1]],
         time |-> [i \in Indices |-> tplan[VehicleOf(i) + 1][PosOf(i)]]]

FeasiblePlans ==
    {plan \in RoutePlans(Customers, 0) : \A w \in Vehicles : CapacityOK(Path(plan, w), w)}

Solutions ==
    UNION {{Assignment(plan, tplan) : tplan \in TimePlans(plan, 0)} : plan \in FeasiblePlans}

-----------------------------------------------------------------------------
(* Section 4: extraction *)

\* lines 127-134: the walk from index to the end of its route
RECURSIVE Walk(_, _)
Walk(index, acc) ==
    IF IsEnd(index) THEN [acc EXCEPT !.index = index]
    ELSE Walk(solution.next[index],
              [index |-> index,
               route_nodes |-> Append(acc.route_nodes, IndexToNode(index)),
               route_times |-> Append(acc.route_times, solution.time[index]),
               total_load |-> acc.total_load + demands[IndexToNode(index)]])

\* lines 122-141: the walk and the final depot
RouteOf(w) ==
    LET r == Walk(Start(w), [index |-> Start(w), route_nodes |-> <<>>,
                             route_times |-> <<>>, total_load |-> 0])
    IN  [route_nodes |-> Append(r.route_nodes, IndexToNode(r.index)),
         route_times |-> Append(r.route_times, solution.time[r.index]),
         total_load |-> r.total_load]

\* faulty variant of IsOutput: a route with a single stop is left out as well
IsOutput_Long(route_nodes) == Len(route_nodes) > 3

\* faulty variant of IsOutput: a depot -> depot route is stored too
IsOutput_Empty(route_nodes) == Len(route_nodes) >= 2

\* line 143
IsOutput(route_nodes) == Len(route_nodes) > 2

\* lines 149-155: one header line per stored vehicle, then one line per stop
RECURSIVE PrintedFrom(_)
PrintedFrom(w) ==
    IF w = num_vehicles THEN <<>>
    ELSE (IF w \in DOMAIN vehicle_routes
          THEN <<[vehicle |-> w, load |-> vehicle_loads[w]]>>
               \o [k \in 1..Min(Len(vehicle_routes[w]), Len(vehicle_times[w])) |->
                     [city |-> vehicle_routes[w][k], t |-> vehicle_times[w][k]]]
          ELSE <<>>) \o PrintedFrom(w + 1)

-----------------------------------------------------------------------------
(* The script *)

\* lines 13-25: the data of helsinki_vrp.csv
Init ==
    /\ \E n \in 1..MaxNodes :
         \E depot \in DepotRows :
           \E rows \in [1..(n - 1) -> CustomerRows] :
             LET row(i) == IF i = 0 THEN depot ELSE rows[i] IN
             /\ demands = [i \in 0..(n - 1) |-> row(i).demand]
             /\ time_windows = [i \in 0..(n - 1) |-> <<row(i).tw_start, row(i).tw_end>>]
             /\ lats = [i \in 0..(n - 1) |-> row(i).lat]
    /\ time_matrix = <<>>
    /\ cumul_range = <<>>
    /\ solution = None
    /\ vehicle_routes = <<>>
    /\ vehicle_times = <<>>
    /\ vehicle_loads = <<>>
    /\ v = 0
    /\ console = <<>>
    /\ pc = "matrix"

\* lines 40-49
BuildMatrix ==
    /\ pc = "matrix"
    /\ time_matrix' = TimeMatrix
    /\ pc' = "model"
    /\ UNCHANGED <<demands, time_windows, lats, cumul_range, solution,
                   vehicle_routes, vehicle_times, vehicle_loads, v, console>>

\* lines 54-100, every SetRange returning
BuildModel ==
    /\ pc = "model"
    /\ cumul_range' = DepotStartRanges(
                         WindowRanges([i \in Indices |-> InitialRange], 0, num_nodes))
    /\ pc' = "solve"
    /\ UNCHANGED <<demands, time_windows, lats, time_matrix, solution,
                   vehicle_routes, vehicle_times, vehicle_loads, v, console>>

\* lines 54-95, the SetRange of line 95 raising on a range it empties
BuildModelRaises ==
    /\ pc = "model"
    /\ FailingNodes # {}
    /\ cumul_range' = WindowRanges([i \in Indices |-> InitialRange], 0, FirstFailingNode)
    /\ pc' = "crashed"
    /\ UNCHANGED <<demands, time_windows, lats, time_matrix, solution,
                   vehicle_routes, vehicle_times, vehicle_loads, v, console>>

\* faulty variant of AfterSolve: the script does not exit on a missing solution
AfterSolve_NoExit(sol) == "extract"

\* what follows line 108: lines 110-112 or the extraction
AfterSolve(sol) == IF sol = None THEN "nosolution" ELSE "extract"

\* lines 103-112
Solve ==
    /\ pc = "solve"
    /\ \E sol \in Solutions \cup {None} :
         /\ solution' = sol
         /\ pc' = AfterSolve(sol)
         /\ console' = IF sol = None THEN <<"No solution found.">> ELSE console
    /\ UNCHANGED <<demands, time_windows, lats, time_matrix, cumul_range,
                   vehicle_routes, vehicle_times, vehicle_loads, v>>

\* lines 121-146, one iteration of the loop
ExtractVehicle ==
    /\ pc = "extract"
    /\ v < num_vehicles
    /\ LET r == RouteOf(v) IN
         IF IsOutput(r.route_nodes)
         THEN /\ vehicle_routes' = (v :> r.route_nodes) @@ vehicle_routes
              /\ vehicle_times' = (v :> r.route_times) @@ vehicle_times
              /\ vehicle_loads' = (v :> r.total_load) @@ vehicle_loads
         ELSE UNCHANGED <<vehicle_routes, vehicle_times, vehicle_loads>>
    /\ v' = v + 1
    /\ pc' = IF v + 1 = num_vehicles THEN "print" ELSE "extract"
    /\ UNCHANGED <<demands, time_windows, lats, time_matrix, cumul_range,
                   solution, console>>

\* lines 149-155
PrintRoutes ==
    /\ pc = "print"
    /\ console' = console \o PrintedFrom(0)
    /\ pc' = "done"
    /\ UNCHANGED <<demands, time_windows, lats, time_matrix, cumul_range,
                   solution, vehicle_routes, vehicle_times, vehicle_loads, v>>

Next ==
    \/ BuildMatrix
    \/ BuildModel
    \/ BuildModelRaises
    \/ Solve
    \/ ExtractVehicle
    \/ PrintRoutes

Spec == Init /\ [][Next]_vars

-----------------------------------------------------------------------------
(* Properties *)

RECURSIVE SumDemands(_)
SumDemands(S) ==
    IF S = {} THEN 0
    ELSE LET n == CHOOSE x \in S : TRUE IN demands[n] + SumDemands(S \ {n})

NodesOn(route) == {route[k] : k \in 1..Len(route)}

VisitsOf(n) ==
    {<<w, k>> \in Vehicles \X (1..(MaxNodes + 2)) :
        /\ w \in DOMAIN vehicle_routes
        /\ k <= Len(vehicle_routes[w])
        /\ vehicle_routes[w][k] = n}

SearchAttempted == pc \in {"nosolution", "extract", "print", "done"}

Oversized(n) == \A w \in Vehicles : demands[n] > vehicle_capacities[w + 1]

\* the wait between the k-th and the next stop of the stored route of vehicle w
WaitAt(w, k) ==
    vehicle_times[w][k + 1] - vehicle_times[w][k]
        - time_matrix[vehicle_routes[w][k]][vehicle_routes[w][k + 1]]

(* C1: the load stored for an output route, which is the sum of the       *)
(* demands of the nodes on that route, never exceeds the capacity of the  *)
(* route's vehicle.                                                        *)
C1_LoadWithinCapacity ==
    \A w \in DOMAIN vehicle_loads :
        /\ vehicle_loads[w] <= vehicle_capacities[w + 1]
        /\ SumDemands(NodesOn(vehicle_routes[w])) <= vehicle_capacities[w + 1]

\* two customers share a route that fills the vehicle exactly
C1_Witness ==
    /\ pc = "done"
    /\ \E w \in DOMAIN vehicle_loads :
         /\ Len(vehicle_routes[w]) = 4
         /\ vehicle_loads[w] = vehicle_capacities[w + 1]

(* C2: the Time value stored for a non-depot node of an output route lies *)
(* within that node's window [tw_start, tw_end].                           *)
C2_TimeWithinWindow ==
    \A w \in DOMAIN vehicle_routes :
        \A k \in 1..Len(vehicle_routes[w]) :
            LET n == vehicle_routes[w][k] IN
            n # depot_index =>
                /\ time_windows[n][1] <= vehicle_times[w][k]
                /\ vehicle_times[w][k] <= time_windows[n][2]

\* a node with a window narrower than the horizon is served as its window closes
C2_Witness ==
    /\ pc = "done"
    /\ \E w \in DOMAIN vehicle_routes :
         \E k \in 1..Len(vehicle_routes[w]) :
            LET n == vehicle_routes[w][k] IN
            /\ n # depot_index
            /\ time_windows[n][2] < max_route_duration
            /\ vehicle_times[w][k] = time_windows[n][2]

(* C3: no non-depot node is stored twice, in one route or in two, and     *)
(* once the extraction is over every non-depot node is stored exactly     *)
(* once; the script keeps no list of unassigned nodes, so none is both    *)
(* routed and unassigned and none is missing.                              *)
C3_EachNodeOnce ==
    \A n \in Customers :
        /\ Cardinality(VisitsOf(n)) <= 1
        /\ pc \in {"print", "done"} => Cardinality(VisitsOf(n)) = 1

\* two customers end up on two different routes
C3_Witness ==
    /\ pc = "done"
    /\ Cardinality(Customers) = 2
    /\ Cardinality(DOMAIN vehicle_routes) = 2

Malformed ==
    \/ \E n \in Nodes : demands[n] < 0
    \/ demands[depot_index] # 0
    \/ \E n \in Nodes : time_windows[n][1] > time_windows[n][2]
    \/ \E n \in Customers :
          \/ TravelMinutes(depot_index, n) + TravelMinutes(n, depot_index)
                > max_route_duration
          \/ TravelMinutes(depot_index, n) > time_windows[n][2]

NoValue(n) ==
    \/ time_windows[n][1] > time_windows[n][2]
    \/ time_windows[n][1] > max_route_duration
    \/ time_windows[n][2] < 0

C7_NoSolutionNoRoutes ==
    /\ pc = "nosolution" =>
          /\ solution = None
          /\ vehicle_routes = <<>> /\ vehicle_times = <<>> /\ vehicle_loads = <<>>
          /\ console = <<"No solution found.">>
          /\ ~ENABLED Next
    /\ solution = None => pc \notin {"extract", "print", "done"}

\* the solver gave up on an instance with customers
C7_Witness ==
    /\ pc = "nosolution"
    /\ Customers # {}
    /\ \A n \in Nodes : ~NoValue(n) /\ ~Oversized(n)

\* the index at position k of the path of vehicle w in the assignment
RECURSIVE IndexAt(_, _)
IndexAt(w, k) == IF k = 1 THEN Start(w) ELSE solution.next[IndexAt(w, k - 1)]

Extracted(w) == pc \in {"print", "done"} \/ (pc = "extract" /\ w < v)

C8_Stored ==
    \A w \in Vehicles :
        /\ w \in DOMAIN vehicle_routes => Extracted(w)
        /\ DOMAIN vehicle_times = DOMAIN vehicle_routes
        /\ DOMAIN vehicle_loads = DOMAIN vehicle_routes
        /\ Extracted(w) =>
             /\ w \in DOMAIN vehicle_routes <=> ~IsEnd(solution.next[Start(w)])
             /\ w \in DOMAIN vehicle_routes =>
                  LET r == vehicle_routes[w]
                      t == vehicle_times[w]
                  IN  /\ r[1] = depot_index /\ r[Len(r)] = depot_index
                      /\ Len(t) = Len(r)
                      /\ IsEnd(IndexAt(w, Len(r)))
                      /\ \A k \in 1..Len(r) :
                           /\ r[k] = IndexToNode(IndexAt(w, k))
                           /\ t[k] = solution.time[IndexAt(w, k)]
                           /\ k < Len(r) => ~IsEnd(IndexAt(w, k))
                      /\ vehicle_loads[w] = SumDemands(NodesOn(r))

(* C8: a vehicle is stored exactly when its route visits a non-depot      *)
(* node; a stored route starts and ends at the depot and lists the nodes  *)
(* of the vehicle's path in order, its times are the Time values of those *)
(* stops in the same order, its load is the sum of the demands of its     *)
(* nodes; and the extraction leaves the assignment as the solver          *)
(* returned it.                                                            *)
C8_ExtractionIsFaithful ==
    /\ [](C8_Stored)
    /\ [][(pc \in {"extract", "print"}) => (solution' = solution)]_vars

\* one vehicle was left out and another stored with two customers
C8_Witness ==
    /\ pc = "done"
    /\ \E w \in Vehicles : w \notin DOMAIN vehicle_routes
    /\ \E w \in DOMAIN vehicle_routes : Len(vehicle_routes[w]) = 4

(* C10: along a stored route each Time value is the previous one plus the *)
(* transit plus a wait between 0 and 30, so the values never decrease, no *)
(* stop is reached by waiting more than 30, and the value at the final    *)
(* depot is at most 240.                                                   *)
C10_WaitWithinSlack ==
    \A w \in DOMAIN vehicle_times :
        /\ \A k \in 1..(Len(vehicle_times[w]) - 1) :
             /\ 0 <= WaitAt(w, k)
             /\ WaitAt(w, k) <= Time_slack
             /\ vehicle_times[w][k] <= vehicle_times[w][k + 1]
        /\ vehicle_times[w][Len(vehicle_times[w])] <= max_route_duration

\* a stop was reached after waiting, on a route that ends at the horizon
C10_Witness ==
    /\ pc = "done"
    /\ \E w \in DOMAIN vehicle_times :
         /\ \E k \in 1..(Len(vehicle_times[w]) - 1) : WaitAt(w, k) = Time_slack
         /\ vehicle_times[w][Len(vehicle_times[w])] = max_route_duration

====
